---- MODULE Spec2Model ----
(***************************************************************************)
(* govfs: the generated virtual file runtime (Open / Read / Seek on the    *)
(* embedded store) and the generator that writes it (main, vfs.Generate,   *)
(* vfs.walk, vfs.writeFile, the golden tests of vfsTests).                 *)
(*                                                                         *)
(* Strings are sequences of tokens: "/" and " " are the separator and the  *)
(* blank, every other token is a name (".", "..", "a", "x", ...).          *)
(* int64 is modelled as a two's complement integer of IntBits bits and     *)
(* maxSize as the largest value of half that width, as math.MaxInt32 is    *)
(* to int64.                                                               *)
(***************************************************************************)
EXTENDS Integers, Sequences, FiniteSets, TLC

\* ------------------------------------------------------------------ bounds
\* width of the model's int64
IntBits == 8
\* longest embedded file
MaxContentLen == 2
\* handles opened in one run of the runtime
MaxHandles == 2
\* longest buffer handed to Read
MaxBufLen == 3
\* mapping operands on the command line
MaxMappings == 2
\* write calls the bufio.Writer of main holds before it spills to the file
BufioLen == 2
\* bytes one read of vfs.writeFile returns (len(v.buf))
ChunkLen == 1

\* ------------------------------------------------------------- integers
MinInt64 == -(2^(IntBits - 1))
MaxInt64 == 2^(IntBits - 1) - 1
Wrap64(x) == ((x - MinInt64) % (2^IntBits)) + MinInt64

maxSize == 2^((IntBits \div 2) - 1) - 1

SeekStart == 0
SeekCurrent == 1
SeekEnd == 2

Min(a, b) == IF a < b THEN a ELSE b

HexDigits == <<"0","1","2","3","4","5","6","7","8","9","a","b","c","d","e","f">>

\* ------------------------------------------------------- strings, paths
RECURSIVE TrimLeft(_)
TrimLeft(s) == IF s # <<>> /\ Head(s) = " " THEN TrimLeft(Tail(s)) ELSE s

RECURSIVE TrimRight(_)
TrimRight(s) == IF s # <<>> /\ s[Len(s)] = " " THEN TrimRight(SubSeq(s, 1, Len(s) - 1)) ELSE s

TrimSpace(s) == TrimRight(TrimLeft(s))

\* the non-empty components between the separators
RECURSIVE SplitAcc(_, _, _)
SplitAcc(s, comps, cur) ==
  IF s = <<>> THEN (IF cur = <<>> THEN comps ELSE Append(comps, cur))
  ELSE IF Head(s) = "/"
       THEN SplitAcc(Tail(s), IF cur = <<>> THEN comps ELSE Append(comps, cur), <<>>)
       ELSE SplitAcc(Tail(s), comps, Append(cur, Head(s)))

Split(s) == SplitAcc(s, <<>>, <<>>)

RECURSIVE JoinSlash(_)
JoinSlash(comps) ==
  IF comps = <<>> THEN <<>>
  ELSE IF Len(comps) = 1 THEN comps[1]
  ELSE comps[1] \o <<"/">> \o JoinSlash(Tail(comps))

RECURSIVE Resolve(_, _, _)
Resolve(comps, rooted, out) ==
  IF comps = <<>> THEN out
  ELSE LET c == Head(comps)
           rest == Tail(comps)
       IN  IF c = <<".">> THEN Resolve(rest, rooted, out)
           ELSE IF c = <<"..">>
           THEN IF out # <<>> /\ out[Len(out)] # <<"..">>
                THEN Resolve(rest, rooted, SubSeq(out, 1, Len(out) - 1))
                ELSE IF rooted THEN Resolve(rest, rooted, out)
                ELSE Resolve(rest, rooted, Append(out, c))
           ELSE Resolve(rest, rooted, Append(out, c))

\* path.Clean
Clean(s) ==
  IF s = <<>> THEN <<".">>
  ELSE LET rooted == s[1] = "/"
           body == JoinSlash(Resolve(Split(s), rooted, <<>>))
       IN  IF rooted THEN <<"/">> \o body
           ELSE IF body = <<>> THEN <<".">> ELSE body

\* path.Join
Join(elems) ==
  LET ne == SelectSeq(elems, LAMBDA e : e # <<>>)
  IN  IF ne = <<>> THEN <<>> ELSE Clean(JoinSlash(ne))

\* filepath.Base
Base(p) ==
  IF p = <<>> THEN <<".">>
  ELSE IF Split(p) = <<>> THEN <<"/">>
  ELSE Split(p)[Len(Split(p))]

RECURSIVE CommonLen(_, _)
CommonLen(a, b) ==
  IF a = <<>> \/ b = <<>> \/ Head(a) # Head(b) THEN 0
  ELSE 1 + CommonLen(Tail(a), Tail(b))

\* filepath.Rel, for two paths that are both relative or both absolute
Rel(basepath, targpath) ==
  LET b == Split(Clean(basepath))
      t == Split(Clean(targpath))
      k == CommonLen(b, t)
      ups == [i \in 1..(Len(b) - k) |-> <<"..">>]
      r == ups \o SubSeq(t, k + 1, Len(t))
  IN  IF r = <<>> THEN <<".">> ELSE JoinSlash(r)

\* filepath.ToSlash where the separator is the slash
ToSlash(p) == p

\* fmt's %d of a byte, and the value a compiler reads back from it
RECURSIVE Decimal(_)
Decimal(n) == IF n < 10 THEN <<HexDigits[n + 1]>>
              ELSE Append(Decimal(n \div 10), HexDigits[(n % 10) + 1])

DigitValue(d) == CHOOSE v \in 0..9 : HexDigits[v + 1] = d

RECURSIVE ParseDecimal(_)
ParseDecimal(t) == IF t = <<>> THEN 0
                   ELSE 10 * ParseDecimal(SubSeq(t, 1, Len(t) - 1)) + DigitValue(t[Len(t)])

\* ------------------------------------------------------------- versions
HexByte(b) == <<HexDigits[(b \div 16) + 1], HexDigits[(b % 16) + 1]>>

AdlerMod == 65521

RECURSIVE AdlerA(_)
AdlerA(c) == IF c = <<>> THEN 1
             ELSE (AdlerA(SubSeq(c, 1, Len(c) - 1)) + c[Len(c)]) % AdlerMod

RECURSIVE AdlerB(_)
AdlerB(c) == IF c = <<>> THEN 0
             ELSE (AdlerB(SubSeq(c, 1, Len(c) - 1)) + AdlerA(c)) % AdlerMod

\* fmt.Sprintf("%x", hash.Sum(nil)): the four big-endian bytes of b<<16 | a
ContentVersion(c) == HexByte(AdlerB(c) \div 256) \o HexByte(AdlerB(c) % 256)
              \o HexByte(AdlerA(c) \div 256) \o HexByte(AdlerA(c) % 256)

\* ------------------------------------------------------------- runtime
Size(st, f) == Len(st[f.f].contents)

Path(f) == f.path

Version(st, f) == st[f.f].version

NoFile == [f |-> <<>>, path |-> <<>>, offset |-> -1]

\* Open that compares the version even when none is asked for
OpenNoEmptyOptOut(st, path, version) ==
  IF path \notin DOMAIN st THEN [err |-> "NotFound", file |-> NoFile]
  ELSE IF st[path].version # version
       THEN [err |-> "VersionMismatch", file |-> NoFile]
       ELSE [err |-> "nil", file |-> [f |-> path, path |-> path, offset |-> 0]]

\* Open: f is the key of the entry the handle points to
Open(st, path, version) ==
  IF path \notin DOMAIN st THEN [err |-> "NotFound", file |-> NoFile]
  ELSE IF version # <<>> /\ st[path].version # version
       THEN [err |-> "VersionMismatch", file |-> NoFile]
       ELSE [err |-> "nil", file |-> [f |-> path, path |-> path, offset |-> 0]]

\* Read that reports EOF whenever it copies nothing
ReadEofOnZero(st, f, bufLen) ==
  LET available == Len(st[f.f].contents) - f.offset
      canRead == Min(available, bufLen)
  IN  IF canRead = 0
      THEN [n |-> 0, err |-> "EOF", data |-> <<>>, file |-> f]
      ELSE [n |-> canRead, err |-> "nil",
            data |-> SubSeq(st[f.f].contents, f.offset + 1, f.offset + canRead),
            file |-> [f EXCEPT !.offset = Wrap64(f.offset + canRead)]]

\* File.Read: data is what copy puts into b
Read(st, f, bufLen) ==
  LET available == Len(st[f.f].contents) - f.offset
      canRead == IF bufLen < available THEN bufLen ELSE available
  IN  IF available = 0
      THEN [n |-> 0, err |-> "EOF", data |-> <<>>, file |-> f]
      ELSE [n |-> canRead, err |-> "nil",
            data |-> SubSeq(st[f.f].contents, f.offset + 1, f.offset + canRead),
            file |-> [f EXCEPT !.offset = Wrap64(f.offset + canRead)]]

\* Seek with io.SeekEnd taken as size + offset
SeekEndAdds(st, f, offset, whence) ==
  IF maxSize < offset THEN [n |-> 0, err |-> "InvalidOffset", file |-> f]
  ELSE IF whence \notin {SeekStart, SeekEnd, SeekCurrent}
  THEN [n |-> 0, err |-> "InvalidWhence", file |-> f]
  ELSE LET newOffset == IF whence = SeekStart THEN offset
                        ELSE IF whence = SeekEnd
                        THEN Wrap64(Len(st[f.f].contents) + offset)
                        ELSE Wrap64(f.offset + offset)
       IN  IF maxSize < newOffset \/ newOffset < 0 \/ Len(st[f.f].contents) < newOffset
           THEN [n |-> 0, err |-> "InvalidOffset", file |-> f]
           ELSE [n |-> newOffset, err |-> "nil", file |-> [f EXCEPT !.offset = newOffset]]

\* Seek that looks at whence before the offset bound
SeekWhenceFirst(st, f, offset, whence) ==
  IF whence \notin {SeekStart, SeekEnd, SeekCurrent}
  THEN [n |-> 0, err |-> "InvalidWhence", file |-> f]
  ELSE IF maxSize < offset THEN [n |-> 0, err |-> "InvalidOffset", file |-> f]
  ELSE LET newOffset == IF whence = SeekStart THEN offset
                        ELSE IF whence = SeekEnd
                        THEN Wrap64(Len(st[f.f].contents) - offset)
                        ELSE Wrap64(f.offset + offset)
       IN  IF maxSize < newOffset \/ newOffset < 0 \/ Len(st[f.f].contents) < newOffset
           THEN [n |-> 0, err |-> "InvalidOffset", file |-> f]
           ELSE [n |-> newOffset, err |-> "nil", file |-> [f EXCEPT !.offset = newOffset]]

\* Seek without the test against the length of the contents
SeekNoUpperBound(st, f, offset, whence) ==
  IF maxSize < offset THEN [n |-> 0, err |-> "InvalidOffset", file |-> f]
  ELSE IF whence \notin {SeekStart, SeekEnd, SeekCurrent}
  THEN [n |-> 0, err |-> "InvalidWhence", file |-> f]
  ELSE LET newOffset == IF whence = SeekStart THEN offset
                        ELSE IF whence = SeekEnd
                        THEN Wrap64(Len(st[f.f].contents) - offset)
                        ELSE Wrap64(f.offset + offset)
       IN  IF maxSize < newOffset \/ newOffset < 0
           THEN [n |-> 0, err |-> "InvalidOffset", file |-> f]
           ELSE [n |-> newOffset, err |-> "nil", file |-> [f EXCEPT !.offset = newOffset]]

\* File.Seek
Seek(st, f, offset, whence) ==
  IF maxSize < offset THEN [n |-> 0, err |-> "InvalidOffset", file |-> f]
  ELSE IF whence \notin {SeekStart, SeekEnd, SeekCurrent}
  THEN [n |-> 0, err |-> "InvalidWhence", file |-> f]
  ELSE LET newOffset == IF whence = SeekStart THEN offset
                        ELSE IF whence = SeekEnd
                        THEN Wrap64(Len(st[f.f].contents) - offset)
                        ELSE Wrap64(f.offset + offset)
       IN  IF maxSize < newOffset \/ newOffset < 0 \/ Len(st[f.f].contents) < newOffset
           THEN [n |-> 0, err |-> "InvalidOffset", file |-> f]
           ELSE [n |-> newOffset, err |-> "nil", file |-> [f EXCEPT !.offset = newOffset]]

\* ------------------------------------------------- runtime: state, inputs
VARIABLES store, handles, solo, ret

\* the generator: its command line and the files it reads
VARIABLES output, testFile, mappings, files
\* the generator: main, vfs.Generate and vfs.walk
VARIABLES pc, mi, si, root, todo, processed, regLog, hasW, wbuf, disk, fatal
\* the golden tests written for the seed, and their outcomes
VARIABLES seed, testResult

rtvars == <<store, handles, solo, ret>>
argvars == <<output, testFile, mappings, files>>
genvars == <<pc, mi, si, root, todo, processed, regLog, hasW, wbuf, disk, fatal>>
testvars == <<seed, testResult>>
vars == <<store, handles, solo, ret, output, testFile, mappings, files,
          pc, mi, si, root, todo, processed, regLog, hasW, wbuf, disk, fatal,
          seed, testResult>>

\* the embedded files are prefixes of one byte string ("hih...")
ByteAt(i) == IF i % 2 = 1 THEN 104 ELSE 105

Contents == {[i \in 1..n |-> ByteAt(i)] : n \in 0..MaxContentLen}

PathX == <<"/", "out", "/", "x">>
PathY == <<"/", "out", "/", "a", "/", "y">>
PathNone == <<"/", "out", "/", "z">>

MkEntry(c) == [contents |-> c, version |-> ContentVersion(c)]

\* the tables a generated artifact can hold: one or two keys, any contents
Stores == {[p \in {PathX} |-> MkEntry(c)] : c \in Contents}
          \cup {[p \in {PathX, PathY} |-> IF p = PathX THEN MkEntry(c) ELSE MkEntry(<<105>>)] : c \in Contents}

OpenPaths == {PathX, PathY, PathNone}
OpenVersions == {<<>>} \cup {ContentVersion(c) : c \in {<<105>>, <<104, 105>>}}
Whences == {SeekStart, SeekCurrent, SeekEnd, 3}
SeekOffsets == {MinInt64, maxSize, maxSize + 1, MaxInt64}
               \cup (-MaxContentLen .. MaxContentLen)

\* the last call: its operation, handle, whence or buffer length, and results
NoRet == [op |-> "none", h |-> 0, arg |-> 0, n |-> 0, err |-> "nil", data |-> <<>>,
          alone |-> [n |-> 0, err |-> "nil", data |-> <<>>]]

RtInit ==
  /\ store \in Stores
  /\ handles = <<>>
  /\ solo = <<>>
  /\ ret = NoRet

\* an offset kept per entry instead of per handle
SetFileShared(hs, h, f) ==
  [i \in 1..Len(hs) |-> IF hs[i].f = f.f THEN [hs[i] EXCEPT !.offset = f.offset] ELSE hs[i]]

\* f.offset = ... on the receiver: a handle's fields belong to it alone
SetFile(hs, h, f) == [hs EXCEPT ![h] = f]

DoOpen(path, version) ==
  LET r == Open(store, path, version)
  IN  /\ r.err = "nil" => Len(handles) < MaxHandles
      /\ handles' = IF r.err = "nil" THEN Append(handles, r.file) ELSE handles
      /\ solo' = IF r.err = "nil" THEN Append(solo, r.file) ELSE solo
      /\ ret' = [op |-> "Open", h |-> IF r.err = "nil" THEN Len(handles) + 1 ELSE 0,
                 arg |-> 0, n |-> 0, err |-> r.err, data |-> <<>>,
                 alone |-> [n |-> 0, err |-> r.err, data |-> <<>>]]
      /\ UNCHANGED store

DoRead(h, bufLen) ==
  LET r == Read(store, handles[h], bufLen)
      a == Read(store, solo[h], bufLen)
  IN  /\ handles' = SetFile(handles, h, r.file)
      /\ solo' = [solo EXCEPT ![h] = a.file]
      /\ ret' = [op |-> "Read", h |-> h, arg |-> bufLen,
                 n |-> r.n, err |-> r.err, data |-> r.data,
                 alone |-> [n |-> a.n, err |-> a.err, data |-> a.data]]
      /\ UNCHANGED store

DoSeek(h, offset, whence) ==
  LET r == Seek(store, handles[h], offset, whence)
      a == Seek(store, solo[h], offset, whence)
  IN  /\ handles' = SetFile(handles, h, r.file)
      /\ solo' = [solo EXCEPT ![h] = a.file]
      /\ ret' = [op |-> "Seek", h |-> h, arg |-> whence,
                 n |-> r.n, err |-> r.err, data |-> <<>>,
                 alone |-> [n |-> a.n, err |-> a.err, data |-> <<>>]]
      /\ UNCHANGED store

OpenCall == \E path \in OpenPaths, version \in OpenVersions : DoOpen(path, version)

ReadCall == \E h \in 1..Len(handles), bufLen \in 0..MaxBufLen : DoRead(h, bufLen)

SeekCall == \E h \in 1..Len(handles), offset \in SeekOffsets, whence \in Whences :
              DoSeek(h, offset, whence)

\* ------------------------------------------------- generator: inputs
SrcAX == <<"a", "/", "x">>
SrcAY == <<"a", "/", "y">>
SrcBX == <<"b", "/", "x">>
DirA == <<"a">>
DirB == <<"b">>
Sock == <<"s">>

\* os.Stat / os.Lstat: the mode of a path of the source tree
Mode(p) == IF p \in {DirA, DirB} THEN "dir"
           ELSE IF p \in {SrcAX, SrcAY, SrcBX} THEN "regular"
           ELSE "other"

\* the names of a directory, sorted, as filepath.Walk reads them
ReadDirNames(p) == IF p = DirA THEN << <<"x">>, <<"y">> >>
                   ELSE IF p = DirB THEN << <<"x">> >>
                   ELSE <<>>

RECURSIVE Flatten(_)
Flatten(ss) == IF ss = <<>> THEN <<>> ELSE Head(ss) \o Flatten(Tail(ss))

\* filepath.Walk: the root, then the entries below it in lexical order
RECURSIVE WalkList(_)
WalkList(p) ==
  <<p>> \o Flatten([i \in 1..Len(ReadDirNames(p)) |->
                      WalkList(Join(<<p, ReadDirNames(p)[i]>>))])

OutDir == <<"/", "out">>

MapAX == [src |-> <<SrcAX>>, targetDir |-> OutDir,
          pattern |-> <<"a", "/", "x", "::", "/", "out">>]
MapBX == [src |-> <<SrcBX>>, targetDir |-> OutDir,
          pattern |-> <<"b", "/", "x", "::", "/", "out">>]
MapAll == [src |-> <<DirA, DirB, Sock>>, targetDir |-> OutDir,
           pattern |-> <<"*", "::", "/", "out">>]
MapAXa == [src |-> <<SrcAX>>, targetDir |-> <<"/", "out", "/", "a">>,
           pattern |-> <<"a", "/", "x", "::", "/", "out", "/", "a">>]
MapNone == [src |-> <<>>, targetDir |-> OutDir,
            pattern |-> <<"q", "::", "/", "out">>]

MappingChoices == {MapAX, MapBX, MapAll, MapAXa, MapNone}

MappingLists == UNION {[1..n -> MappingChoices] : n \in 1..MaxMappings}

\* a regular file: what stat reports and what reading it yields (the files
\* do not change during a run)
FileOf(c) == [size |-> Len(c), contents |-> c]
Oversized == [size |-> maxSize + 1, contents |-> <<>>]

FileSystems ==
  {[p \in {SrcAX, SrcAY, SrcBX} |->
      IF p = SrcAX THEN fa ELSE IF p = SrcBX THEN FileOf(cb) ELSE FileOf(<<105>>)] :
     fa \in {FileOf(c) : c \in Contents} \cup {Oversized},
     cb \in {<<104>>, <<104, 105>>}}

Outputs == {<<>>, <<"vfs.go">>}
TestFiles == {<<>>, <<" ">>, <<"/", "out", "/", "/", "x">>, <<"/", "out", "/", "z">>}

NoSeed == [path |-> <<>>, size |-> -1, version |-> <<>>]
Tests == {"TestPath", "TestVersion", "TestSize", "TestReader", "TestSeeker"}

GenIdle ==
  /\ output = <<>> /\ testFile = <<>> /\ mappings = <<>> /\ files = <<>>
  /\ pc = "idle" /\ mi = 0 /\ si = 0 /\ root = <<>> /\ todo = <<>>
  /\ processed = <<>> /\ regLog = <<>> /\ hasW = FALSE /\ wbuf = <<>> /\ disk = <<>>
  /\ fatal = "none"
  /\ seed = NoSeed /\ testResult = [t \in Tests |-> "-"]

GenInit ==
  /\ output \in Outputs
  /\ testFile \in TestFiles
  /\ mappings \in MappingLists
  /\ files \in FileSystems
  /\ pc = "main" /\ mi = 0 /\ si = 0 /\ root = <<>> /\ todo = <<>>
  /\ processed = <<>> /\ regLog = <<>> /\ hasW = FALSE /\ wbuf = <<>> /\ disk = <<>>
  /\ fatal = "none"
  /\ seed = NoSeed /\ testResult = [t \in Tests |-> "-"]
  /\ store = <<>> /\ handles = <<>> /\ solo = <<>> /\ ret = NoRet

\* ------------------------------------------------- generator: the artifact
\* One token per write call: the header, an entry's key, one byte, an entry's
\* version, the footer.
Tok(k, path, text) == [k |-> k, path |-> path, text |-> text]
HeaderTok == Tok("header", <<>>, <<>>)
FooterTok == Tok("footer", <<>>, <<>>)
KeyTok(target) == Tok("key", target, <<>>)
ByteTok(b) == Tok("byte", <<>>, Decimal(b))
VersionTok(v) == Tok("version", <<>>, v)

\* bufio.Writer.Write of one token: a full buffer goes to the file first
BufWrite(w, tok) ==
  IF Len(w.buf) >= BufioLen
  THEN [disk |-> w.disk \o w.buf, buf |-> <<tok>>]
  ELSE [disk |-> w.disk, buf |-> Append(w.buf, tok)]

RECURSIVE BufWriteAll(_, _)
BufWriteAll(w, toks) ==
  IF toks = <<>> THEN w ELSE BufWriteAll(BufWrite(w, Head(toks)), Tail(toks))

\* a Flush that discards what is buffered
FlushDrops(w) == [disk |-> w.disk, buf |-> <<>>]

\* bufio.Writer.Flush
Flush(w) == [disk |-> w.disk \o w.buf, buf |-> <<>>]

\* the bytes of the chunks that the first k reads return
ChunksRead(c, k) == SubSeq(c, 1, Min(Len(c), k * ChunkLen))

\* the number of reads that return bytes before the one that returns io.EOF
NumChunks(c) == (Len(c) + ChunkLen - 1) \div ChunkLen

\* vfs.writeFile: e.open says whether os.Open fails, e.readErrAt is the
\* number of reads that succeed before one fails (-1: none fails)
writeFile(w, target, f, size, e) ==
  IF ~w THEN [version |-> <<>>, err |-> "nil", toks |-> <<>>]
  ELSE IF maxSize < size THEN [version |-> <<>>, err |-> "oversize", toks |-> <<>>]
  ELSE IF e.open THEN [version |-> <<>>, err |-> "open", toks |-> <<>>]
  ELSE IF e.readErrAt >= 0 /\ e.readErrAt <= NumChunks(f.contents)
  THEN [version |-> <<>>, err |-> "read",
        toks |-> <<KeyTok(target)>>
                 \o [i \in 1..Len(ChunksRead(f.contents, e.readErrAt)) |-> ByteTok(f.contents[i])]]
  ELSE [version |-> ContentVersion(f.contents), err |-> "nil",
        toks |-> <<KeyTok(target)>>
                 \o [i \in 1..Len(f.contents) |-> ByteTok(f.contents[i])]
                 \o <<VersionTok(ContentVersion(f.contents))>>]

\* the table literal as the compiler reads it; ok is FALSE for a text that
\* does not compile (an unfinished entry, a key written twice)
Bad == [ok |-> FALSE, st |-> <<>>]

RECURSIVE ParseEntries(_, _, _)
ParseEntries(toks, st, cur) ==
  IF toks = <<>> THEN (IF cur = <<>> THEN [ok |-> TRUE, st |-> st] ELSE Bad)
  ELSE LET t == Head(toks)
       IN  IF t.k = "key"
           THEN IF cur # <<>> \/ t.path \in DOMAIN st THEN Bad
                ELSE ParseEntries(Tail(toks), st, <<[path |-> t.path, contents |-> <<>>]>>)
           ELSE IF t.k = "byte"
           THEN IF cur = <<>> THEN Bad
                ELSE ParseEntries(Tail(toks), st,
                       <<[cur[1] EXCEPT !.contents = Append(@, ParseDecimal(t.text))]>>)
           ELSE IF t.k = "version"
           THEN IF cur = <<>> THEN Bad
                ELSE ParseEntries(Tail(toks),
                       [q \in DOMAIN st \cup {cur[1].path} |->
                          IF q = cur[1].path
                          THEN [contents |-> cur[1].contents, version |-> t.text]
                          ELSE st[q]],
                       <<>>)
           ELSE Bad

\* var store = map[string]*file{ ... }
ParseArtifact(d) ==
  IF Len(d) < 2 \/ d[1] # HeaderTok \/ d[Len(d)] # FooterTok THEN Bad
  ELSE ParseEntries(SubSeq(d, 2, Len(d) - 1), <<>>, <<>>)

\* ------------------------------------------------- generator: actions
Exit(msg) == pc' = "exit1" /\ fatal' = msg

Writer == [disk |-> disk, buf |-> wbuf]

\* main, lines 96-107: create the output file and its buffered writer
MainOutput ==
  /\ pc = "main"
  /\ IF TrimSpace(output) # <<>>
     THEN \E err \in {"nil", "create"} :
            IF err # "nil"
            THEN Exit("could not create") /\ UNCHANGED <<hasW, disk, wbuf>>
            ELSE /\ pc' = "generate" /\ hasW' = TRUE /\ disk' = <<>> /\ wbuf' = <<>>
                 /\ UNCHANGED fatal
     ELSE pc' = "generate" /\ UNCHANGED <<hasW, disk, wbuf, fatal>>
  /\ UNCHANGED <<mi, si, root, todo, processed, regLog>>
  /\ UNCHANGED <<rtvars, argvars, testvars>>

\* vfs.Generate, lines 179-183, and vfs.writeHeader
GenerateHeader ==
  /\ pc = "generate"
  /\ processed' = <<>>
  /\ LET w == IF hasW THEN BufWrite(Writer, HeaderTok) ELSE Writer
     IN  disk' = w.disk /\ wbuf' = w.buf
  /\ pc' = "mapping" /\ mi' = 1 /\ si' = 1
  /\ UNCHANGED <<root, todo, regLog, hasW, fatal>>
  /\ UNCHANGED <<rtvars, argvars, testvars>>

\* vfs.Generate, lines 185-199: the loops over the mappings and their sources
MappingEnd ==
  /\ pc = "mapping" /\ mi <= Len(mappings) /\ si > Len(mappings[mi].src)
  /\ mi' = mi + 1 /\ si' = 1
  /\ UNCHANGED <<pc, root, todo, processed, regLog, hasW, wbuf, disk, fatal>>
  /\ UNCHANGED <<rtvars, argvars, testvars>>

SourceStat ==
  /\ pc = "mapping" /\ mi <= Len(mappings) /\ si <= Len(mappings[mi].src)
  /\ LET s == mappings[mi].src[si]
     IN  \E err \in {"nil", "stat"} :
           IF err # "nil"
           THEN Exit("stat error") /\ UNCHANGED <<si, root, todo>>
           ELSE IF Mode(s) \in {"regular", "dir"}
           THEN /\ pc' = "walk" /\ root' = s /\ todo' = WalkList(s)
                /\ UNCHANGED <<si, fatal>>
           ELSE si' = si + 1 /\ UNCHANGED <<pc, root, todo, fatal>>
  /\ UNCHANGED <<mi, processed, regLog, hasW, wbuf, disk>>
  /\ UNCHANGED <<rtvars, argvars, testvars>>

\* vfs.walk, lines 206 and 212-216: the virtual path of a walked file
Target(targetDir, src, p) == Join(<<targetDir, Base(src), ToSlash(Rel(src, p))>>)

\* a walk that never finds a target registered
NeverProcessed(reg, target) == FALSE

\* vfs.walk, line 218: _, ok := v.processed[target]
AlreadyProcessed(reg, target) == target \in DOMAIN reg

WalkOutcomes == [visit : {"nil", "lstat"}, open : BOOLEAN, readErrAt : -1..1]

\* vfs.walk, lines 208-232: the callback of filepath.Walk on the next path
WalkFn(e) ==
  /\ pc = "walk" /\ todo # <<>>
  /\ LET p == Head(todo)
         target == Target(mappings[mi].targetDir, root, p)
         r == writeFile(hasW, target, files[p], files[p].size, e)
         w == BufWriteAll(Writer, r.toks)
     IN  IF e.visit # "nil"
         THEN Exit("could not visit") /\ UNCHANGED <<todo, processed, regLog, wbuf, disk>>
         ELSE IF Mode(p) # "regular"
         THEN todo' = Tail(todo) /\ UNCHANGED <<pc, fatal, processed, regLog, wbuf, disk>>
         ELSE IF AlreadyProcessed(processed, target)
         THEN Exit("target already exists") /\ UNCHANGED <<todo, processed, regLog, wbuf, disk>>
         ELSE /\ disk' = w.disk /\ wbuf' = w.buf
              /\ IF r.err # "nil"
                 THEN Exit(r.err) /\ UNCHANGED <<todo, processed, regLog>>
                 ELSE /\ processed' =
                           [q \in DOMAIN processed \cup {target} |->
                              IF q = target
                              THEN [path |-> target, size |-> files[p].size, version |-> r.version]
                              ELSE processed[q]]
                      /\ regLog' = Append(regLog, [target |-> target, src |-> p])
                      /\ todo' = Tail(todo)
                      /\ UNCHANGED <<pc, fatal>>
  /\ UNCHANGED <<mi, si, root, hasW>>
  /\ UNCHANGED <<rtvars, argvars, testvars>>

WalkStep == \E e \in WalkOutcomes : WalkFn(e)

\* vfs.walk, line 233: filepath.Walk returns, the next source follows
WalkEnd ==
  /\ pc = "walk" /\ todo = <<>>
  /\ pc' = "mapping" /\ si' = si + 1
  /\ UNCHANGED <<mi, root, todo, processed, regLog, hasW, wbuf, disk, fatal>>
  /\ UNCHANGED <<rtvars, argvars, testvars>>

\* vfs.Generate, lines 201-202, and vfs.writeFooter
GenerateFooter ==
  /\ pc = "mapping" /\ mi > Len(mappings)
  /\ LET w == IF hasW THEN BufWrite(Writer, FooterTok) ELSE Writer
     IN  disk' = w.disk /\ wbuf' = w.buf
  /\ pc' = "flush"
  /\ UNCHANGED <<mi, si, root, todo, processed, regLog, hasW, fatal>>
  /\ UNCHANGED <<rtvars, argvars, testvars>>

\* main, lines 110-113
MainFlush ==
  /\ pc = "flush"
  /\ LET w == IF hasW THEN Flush(Writer) ELSE Writer
     IN  disk' = w.disk /\ wbuf' = w.buf
  /\ pc' = "test"
  /\ UNCHANGED <<mi, si, root, todo, processed, regLog, hasW, fatal>>
  /\ UNCHANGED <<rtvars, argvars, testvars>>

\* main, lines 115-116: the test file option as main compares it
CleanTestFile(t) == Clean(TrimSpace(t))

\* main, lines 115-135: the golden tests of the seed, and vfsTests.Generate
MainTest ==
  /\ pc = "test"
  /\ LET t == CleanTestFile(testFile)
     IN  IF TrimSpace(output) # <<>> /\ t # <<>>
         THEN IF t \notin DOMAIN processed
              THEN Exit("test file not found") /\ UNCHANGED seed
              ELSE \E err \in {"nil", "create"} :
                     IF err # "nil"
                     THEN Exit("could not create test") /\ UNCHANGED seed
                     ELSE pc' = "exit0" /\ seed' = processed[t] /\ UNCHANGED fatal
         ELSE pc' = "exit0" /\ UNCHANGED <<seed, fatal>>
  /\ UNCHANGED <<mi, si, root, todo, processed, regLog, hasW, wbuf, disk>>
  /\ UNCHANGED <<rtvars, argvars, testResult>>

\* the generated package starts: var store is built from the table literal
LoadStore ==
  /\ pc = "exit0" /\ seed # NoSeed
  /\ ParseArtifact(disk).ok
  /\ store' = ParseArtifact(disk).st
  /\ pc' = "tests"
  /\ UNCHANGED <<handles, solo, ret, argvars, testvars>>
  /\ UNCHANGED <<mi, si, root, todo, processed, regLog, hasW, wbuf, disk, fatal>>

Verdict(ok) == IF ok THEN "pass" ELSE "fail"

\* tmplTest: each test opens the seed by its recorded path and version
TestPath ==
  LET o == Open(store, seed.path, seed.version)
  IN  Verdict(o.err = "nil" /\ Path(o.file) = seed.path)

TestVersion ==
  LET o == Open(store, seed.path, seed.version)
  IN  Verdict(o.err = "nil" /\ Version(store, o.file) = seed.version)

TestSize ==
  LET o == Open(store, seed.path, seed.version)
  IN  Verdict(o.err = "nil" /\ Size(store, o.file) = seed.size)

TestReader ==
  LET o == Open(store, seed.path, seed.version)
  IN  Verdict(o.err = "nil" /\ Read(store, o.file, seed.size).err = "nil"
              /\ Read(store, o.file, seed.size).n = seed.size)

TestSeeker ==
  LET o == Open(store, seed.path, seed.version)
  IN  Verdict(o.err = "nil" /\ Seek(store, o.file, 0, SeekEnd).err = "nil"
              /\ Seek(store, o.file, 0, SeekEnd).n = seed.size)

RunTest(t) ==
  /\ pc = "tests" /\ testResult[t] = "-"
  /\ testResult' = [testResult EXCEPT ![t] =
       CASE t = "TestPath" -> TestPath
         [] t = "TestVersion" -> TestVersion
         [] t = "TestSize" -> TestSize
         [] t = "TestReader" -> TestReader
         [] t = "TestSeeker" -> TestSeeker]
  /\ UNCHANGED <<rtvars, argvars, genvars, seed>>

GoTest == \E t \in Tests : RunTest(t)

\* ------------------------------------------------- specifications
Init == RtInit /\ GenIdle

Next ==
  \/ OpenCall /\ UNCHANGED <<argvars, genvars, testvars>>
  \/ ReadCall /\ UNCHANGED <<argvars, genvars, testvars>>
  \/ SeekCall /\ UNCHANGED <<argvars, genvars, testvars>>

Spec == Init /\ [][Next]_vars

GenNext ==
  \/ MainOutput
  \/ GenerateHeader
  \/ MappingEnd
  \/ SourceStat
  \/ WalkStep
  \/ WalkEnd
  \/ GenerateFooter
  \/ MainFlush
  \/ MainTest
  \/ LoadStore
  \/ GoTest

GenSpec == GenInit /\ [][GenNext]_vars

\* ------------------------------------------------- runtime: properties
\* Calls on distinct handles touch disjoint File structs and only read the
\* store, so the interleaving of whole calls is every behaviour there is.
\* ret' names the call a step makes: its operation, its handle and its whence
\* or buffer length.

\* C1: every handle's offset stays within 0 .. size of its entry, whatever
\* sequence of Read and Seek calls, successful or failing, it has seen.
OffsetInRange ==
  \A h \in 1..Len(handles) :
    0 <= handles[h].offset /\ handles[h].offset <= Size(store, handles[h])

\* a Seek has just been refused on a handle standing at the end of a non-empty entry
OffsetInRangeWitness ==
  /\ ret.op = "Seek" /\ ret.err = "InvalidOffset"
  /\ handles[ret.h].offset = Size(store, handles[ret.h])
  /\ Size(store, handles[ret.h]) > 0

SeekContract ==
  [][(ret'.op = "Seek" /\ ret'.arg \in {SeekStart, SeekCurrent, SeekEnd}) =>
       \A h \in {ret'.h}, offset \in SeekOffsets, whence \in {ret'.arg} :
       DoSeek(h, offset, whence) =>
         LET size == Len(store[handles[h].f].contents)
             cur == handles[h].offset
             candidate == IF whence = SeekStart THEN offset
                          ELSE IF whence = SeekCurrent THEN cur + offset
                          ELSE size - offset
             ok == /\ offset <= maxSize /\ candidate <= maxSize
                   /\ 0 <= candidate /\ candidate <= size
         IN  IF ok
             THEN ret'.err = "nil" /\ ret'.n = candidate /\ handles'[h].offset = candidate
             ELSE ret'.err = "InvalidOffset" /\ handles'[h].offset = cur]_vars

\* Seek(0, SeekEnd) has just returned the size of a non-empty entry
SeekContractWitness ==
  /\ ret.op = "Seek" /\ ret.arg = SeekEnd /\ ret.err = "nil"
  /\ ret.n = Size(store, handles[ret.h]) /\ ret.n > 0
  /\ handles[ret.h].offset = ret.n

\* C4 as stated: a whence outside the three modes fails with InvalidWhence for
\* every offset, offsets above maxSize included, and keeps the cursor.
SeekBadWhenceAnyOffset ==
  [][(ret'.op = "Seek" /\ ret'.arg \notin {SeekStart, SeekCurrent, SeekEnd}) =>
       \A h \in {ret'.h}, offset \in SeekOffsets, whence \in {ret'.arg} :
       DoSeek(h, offset, whence) =>
         ret'.err = "InvalidWhence" /\ handles'[h].offset = handles[h].offset]_vars

\* C4 amended: a whence outside the three modes fails with InvalidWhence when
\* offset <= maxSize and with InvalidOffset when offset > maxSize (the offset
\* bound is tested first); the cursor keeps its value either way.
SeekBadWhence ==
  [][(ret'.op = "Seek" /\ ret'.arg \notin {SeekStart, SeekCurrent, SeekEnd}) =>
       \A h \in {ret'.h}, offset \in SeekOffsets, whence \in {ret'.arg} :
       DoSeek(h, offset, whence) =>
         /\ ret'.err = IF maxSize < offset THEN "InvalidOffset" ELSE "InvalidWhence"
         /\ ret'.n = 0
         /\ handles'[h].offset = handles[h].offset]_vars

\* a Seek with an unknown whence has just failed with InvalidOffset
SeekBadWhenceWitness ==
  /\ ret.op = "Seek" /\ ret.arg \notin {SeekStart, SeekCurrent, SeekEnd}
  /\ ret.err = "InvalidOffset"

\* C5: Open fails with NotFound for a path that is no key of the store, else
\* with VersionMismatch for a non-empty version that differs from the entry's,
\* else returns a new handle on that entry with offset 0 and Path() = path; a
\* failed Open creates no handle and no Open changes the store.
OpenContract ==
  [][ret'.op = "Open" =>
       \A path \in OpenPaths, version \in OpenVersions :
       DoOpen(path, version) =>
         /\ store' = store
         /\ IF path \notin DOMAIN store
            THEN ret'.err = "NotFound" /\ handles' = handles
            ELSE IF version # <<>> /\ version # store[path].version
            THEN ret'.err = "VersionMismatch" /\ handles' = handles
            ELSE /\ ret'.err = "nil"
                 /\ Len(handles') = Len(handles) + 1
                 /\ SubSeq(handles', 1, Len(handles)) = handles
                 /\ handles'[Len(handles')].f = path
                 /\ handles'[Len(handles')].offset = 0
                 /\ Path(handles'[Len(handles')]) = path]_vars

\* an Open has just succeeded on an entry while an earlier handle on it has moved on
OpenContractWitness ==
  /\ ret.op = "Open" /\ ret.err = "nil" /\ ret.h = 2
  /\ handles[2].offset = 0 /\ handles[1].offset > 0
  /\ handles[1].f = handles[2].f

\* C9: no call changes the store or the offset of a handle other than its own,
\* and every handle gets the results it would get if its calls ran alone.
HandlesIndependent ==
  [][/\ store' = store
     /\ \A h \in 1..Len(handles) : h # ret'.h => handles'[h] = handles[h]
     /\ handles' = solo'
     /\ ret'.alone = [n |-> ret'.n, err |-> ret'.err, data |-> ret'.data]]_vars

\* two handles opened on the same path stand at different offsets after a Read
HandlesIndependentWitness ==
  /\ Len(handles) >= 2 /\ ret.op = "Read" /\ ret.n > 0
  /\ handles[1].f = handles[2].f
  /\ handles[1].offset # handles[2].offset

\* ------------------------------------------------- generator: properties
Complete(d) == ParseArtifact(d).ok /\ DOMAIN ParseArtifact(d).st = DOMAIN processed

ListedFatal == {"stat error", "open", "read", "target already exists", "oversize",
                "test file not found"}

\* C6: in a run with or without an output, every target path is registered
\* from at most one source; a regular file whose target is already a key makes
\* the run abort at that point, identical contents or not, with nothing of it
\* written and nothing processed after it; the registry otherwise only grows.
UniqueTargets ==
  [][/\ pc # "exit1"
     /\ \A i, j \in 1..Len(regLog') : regLog'[i].target = regLog'[j].target => i = j
     /\ {regLog'[i].target : i \in 1..Len(regLog')} = DOMAIN processed'
     /\ \A t \in DOMAIN processed : t \in DOMAIN processed' /\ processed'[t] = processed[t]
     /\ \A e \in WalkOutcomes :
          (/\ WalkFn(e) /\ e.visit = "nil" /\ Mode(Head(todo)) = "regular"
           /\ Target(mappings[mi].targetDir, root, Head(todo)) \in DOMAIN processed)
          => /\ pc' = "exit1" /\ fatal' = "target already exists"
             /\ wbuf' = wbuf /\ disk' = disk
             /\ processed' = processed /\ regLog' = regLog]_vars

\* the run has stopped on a second source of a registered target whose
\* contents equal those of the first
UniqueTargetsWitness ==
  /\ pc = "exit1" /\ fatal = "target already exists" /\ hasW
  /\ \E i \in 1..Len(regLog) :
       /\ regLog[i].target = Target(mappings[mi].targetDir, root, Head(todo))
       /\ regLog[i].src # Head(todo)
       /\ files[regLog[i].src].contents = files[Head(todo)].contents

\* C7 as stated: a run with an output that stops on a fatal condition leaves
\* the artifact either not written at all or written in full.
ArtifactAllOrNothing ==
  (pc = "exit1" /\ hasW /\ fatal \in ListedFatal) => (disk = <<>> \/ Complete(disk))

\* C7 amended: a run with an output that stops on a missing test seed leaves
\* the full artifact; one that stops on a stat, open or read error, a
\* duplicate target or an oversized file leaves an incomplete artifact: the
\* empty file, or the header and the entries flushed so far (the last one
\* possibly unfinished), never the footer.
ArtifactOnFatal ==
  (pc = "exit1" /\ hasW /\ fatal \in ListedFatal) =>
    IF fatal = "test file not found"
    THEN Complete(disk) /\ wbuf = <<>>
    ELSE /\ ~Complete(disk)
         /\ \A i \in 1..Len(disk) : disk[i] # FooterTok
         /\ disk = <<>> \/ disk[1] = HeaderTok

\* the run has stopped on a duplicate target with a part of the artifact on disk
ArtifactOnFatalWitness ==
  /\ pc = "exit1" /\ hasW /\ fatal = "target already exists"
  /\ disk # <<>> /\ ~Complete(disk)

\* C8: a handle opened with the seed's recorded path and version has Size()
\* equal to the recorded size, its first Read into a buffer of that size
\* returns (size, nil) and a further Read returns (0, EOF); the golden tests
\* that assert it pass.
SeedRoundTrip ==
  (pc = "tests") =>
    LET o == Open(store, seed.path, seed.version)
        r1 == Read(store, o.file, seed.size)
        r2 == Read(store, r1.file, seed.size)
    IN  /\ o.err = "nil"
        /\ Size(store, o.file) = seed.size
        /\ r1.n = seed.size /\ r1.err = "nil"
        /\ r2.n = 0 /\ r2.err = "EOF"
        /\ testResult["TestSize"] # "fail"
        /\ testResult["TestReader"] # "fail"

\* C10: with an output, a generation that went through and a blank or absent
\* test file option, the run ends without a fatal error, the artifact written
\* in full and no test file; and "test file not found" is reported only for a
\* non-blank option naming a path absent from the registry.
NoSeedOption ==
  /\ (/\ pc \in {"exit0", "exit1", "tests"}
      /\ fatal \in {"none", "test file not found", "could not create test"}
      /\ TrimSpace(output) # <<>> /\ TrimSpace(testFile) = <<>>)
     => (pc = "exit0" /\ fatal = "none" /\ Complete(disk) /\ seed = NoSeed)
  /\ fatal = "test file not found"
     => /\ TrimSpace(output) # <<>> /\ TrimSpace(testFile) # <<>>
        /\ CleanTestFile(testFile) \notin DOMAIN processed

====
